---- MODULE Spec2Model ----
(***************************************************************************)
(* Model of the incomplete-emphasis resolver of codemirror-rich-markdoc    *)
(* (src/src/incomplete-emphases.ts): the delimiter scanner (parseInline),  *)
(* the matcher (collectSegments) and the tree builder (buildTree), run     *)
(* once over one inline block whose text starts at offset 0.               *)
(***************************************************************************)
EXTENDS Integers, Sequences, FiniteSets, TLC

VARIABLES text, scanPos, delims, parts, i, d, remaining, segments, elements,
          pc, run

vars ==
  <<text, scanPos, delims, parts, i, d, remaining, segments, elements, pc,
    run>>

(***************************************************************************)
(* Bounds of the model.                                                    *)
(***************************************************************************)
\* longest text of the exhaustive family (every text over Alphabet)
MaxLen == 5
\* longest delimiter run of the run-pattern family
MaxRunLen == 3
\* invocations of the matcher and the builder on the runs of one block
MaxRuns == 2

(***************************************************************************)
(* Characters and texts.                                                   *)
(***************************************************************************)
Alphabet == {"a", " ", ".", "*", "_"}

Min(a, b) == IF a < b THEN a ELSE b
Max(a, b) == IF a > b THEN a ELSE b

RECURSIVE Repeat(_, _)
Repeat(c, n) == IF n <= 0 THEN <<>> ELSE <<c>> \o Repeat(c, n - 1)

RECURSIVE TextsOfLen(_)
TextsOfLen(n) ==
  IF n = 0 THEN {<<>>}
  ELSE {Append(t, c) : t \in TextsOfLen(n - 1), c \in Alphabet}

ShortTexts == UNION {TextsOfLen(n) : n \in 0..MaxLen}

\* four runs separated by one character each: r1 s1 r2 s2 r3 s3 r4
RunChars == {"*", "_"}
SepChars == {"a", " "}
RunTexts ==
  {Repeat(k1, n1) \o <<s1>> \o Repeat(k2, n2) \o <<s2>> \o Repeat(k3, n3)
     \o <<s3>> \o Repeat("*", n4) :
     k1 \in RunChars, k2 \in RunChars, k3 \in RunChars,
     n1 \in 1..MaxRunLen, n2 \in 1..MaxRunLen, n3 \in 1..MaxRunLen,
     n4 \in 1..MaxRunLen, s1 \in SepChars, s2 \in SepChars, s3 \in SepChars}

\* the inputs the documentation discusses
TxtNeverCloses == <<"*","n","e","v","e","r"," ","c","l","o","s","e","s">>
TxtHelloStrong == <<"*","*","h","e","l","l","o">>
TxtOverlap ==
  <<"*","i","t","a","l","i","c","s"," ","a","n","d"," ","*","*","b","o","l",
    "d","*"," ","e","n","d","*","*">>
TxtClosed == <<"a"," ","*","b","*"," ","c">>
TxtBold == <<"*","*","b","o","l","d","*","*">>
TxtTriple == <<"a","*","*","*","b","*","*","*","c">>
TxtNested == <<"*","a"," ","*","*","b","*","*"," ","c","*">>
TxtHistoric == <<"*","a","*","*","a","*">>
\* three mutually crossing spans: * ... ** ... __ ... * ... ** ... __
TxtThreeWay ==
  <<"*","a","*","*","b"," ","_","_","c","*","d","*","*","e","_","_">>
\* a nested span between two spans that both cross the first one
TxtCrossNest ==
  <<"*","a","*","*","b"," ","*","c","*"," ","d"," ","_","e","*","f","*","*",
    "g","_">>
\* a strong opener met by two lone closers
TxtStrongTwoClosers == <<"*","*","a","*"," ","b","*">>
\* an emphasis enclosing an emphasis that crosses a strong span
TxtEnclosedCross ==
  <<"*","_","a","*","*","b","_","*",".","*","*">>

\* a closed span nested where two spans cross
TxtOverlapNested ==
  <<"*","a"," ","*","*","b"," ","*","c","*"," ","d","*"," ","e","*","*">>

\* a closer matched twice, after an opener that never closes
TxtRematch == <<"*","a"," ","*","*","*","b","*","*","*">>

\* a lone closer after an opener of 3 characters and an opener of 1
TxtSameSize == <<"*","a"," ","*","*","*","b","*">>

\* two closers that find no opener, the second one opens the next match
TxtUnmatchedClosers == <<"a","*"," ","b","*","c","*","d">>

Examples ==
  {TxtUnmatchedClosers, TxtSameSize, TxtOverlapNested, TxtRematch, TxtNeverCloses, TxtHelloStrong, TxtOverlap,
   TxtClosed, TxtBold, TxtTriple, TxtNested, TxtHistoric, TxtThreeWay, TxtCrossNest, TxtStrongTwoClosers,
   TxtEnclosedCross}

Texts == ShortTexts \cup RunTexts \cup Examples

(***************************************************************************)
(* Scanner: IncompleteEmphasis.parseInline[0].parse                        *)
(***************************************************************************)
EmphasisUnderscore == "EmphasisUnderscore"
EmphasisAsterisk == "EmphasisAsterisk"

MarkOpen == 1
MarkClose == 2

\* side & Mark.Open, side & Mark.Close
HasOpen(side) == side % 2 = 1
HasClose(side) == (side \div 2) % 2 = 1

\* cx.char(pos): the character at pos, "" (the code's -1) outside the block
char(t, pos) == IF pos >= 0 /\ pos < Len(t) THEN t[pos + 1] ELSE ""

\* cx.slice(pos, pos + 1)
slice1(t, pos) == char(t, pos)

\* the characters of the model that Punctuation matches
PunctuationChars == {".", "*", "_", "!", ",", "-"}
Punctuation(c) == c \in PunctuationChars

\* /\s|^$/.test(c)
IsSpaceOrEmpty(c) == c = " " \/ c = ""

\* while (cx.char(pos) == next) pos++
RECURSIVE RunEnd(_, _, _)
RunEnd(t, next, pos) ==
  IF pos < Len(t) /\ char(t, pos) = next THEN RunEnd(t, next, pos + 1) ELSE pos

leftFlanking(before, after) ==
  /\ ~IsSpaceOrEmpty(after)
  /\ (~Punctuation(after) \/ IsSpaceOrEmpty(before) \/ Punctuation(before))

rightFlanking(before, after) ==
  /\ ~IsSpaceOrEmpty(before)
  /\ (~Punctuation(before) \/ IsSpaceOrEmpty(after) \/ Punctuation(after))

canOpen(next, before, after) ==
  /\ leftFlanking(before, after)
  /\ (next = "*" \/ ~rightFlanking(before, after) \/ Punctuation(before))

canClose(next, before, after) ==
  /\ rightFlanking(before, after)
  /\ (next = "*" \/ ~leftFlanking(before, after) \/ Punctuation(after))

InlineDelimiter(type, from, to, side) ==
  [type |-> type, from |-> from, to |-> to, side |-> side]

\* the delimiter parse appends for the run that starts at start
ScanDelimiter(t, start) ==
  LET next == char(t, start)
      pos == RunEnd(t, next, start + 1)
      before == slice1(t, start - 1)
      after == slice1(t, pos)
  IN InlineDelimiter(
       IF next = "_" THEN EmphasisUnderscore ELSE EmphasisAsterisk,
       start, pos,
       (IF canOpen(next, before, after) THEN MarkOpen ELSE 0)
         + (IF canClose(next, before, after) THEN MarkClose ELSE 0))

(***************************************************************************)
(* Matcher: collectSegments                                                *)
(***************************************************************************)
\* a slot of parts set to null
Null == [null |-> TRUE]

Segment(type, from, to, markSizeOpen, markSizeClose) ==
  [type |-> type, from |-> from, to |-> to,
   markSizeOpen |-> markSizeOpen, markSizeClose |-> markSizeClose]

\* mutant: every match taken as a single character
MatchSizeOne(openSize, closeSize) == Min(1, Min(openSize, closeSize))

\* Math.min(2, openSize, closeSize)
MatchSize(openSize, closeSize) == Min(2, Min(openSize, closeSize))

SizeType(size) == IF size = 1 THEN "Emphasis" ELSE "StrongEmphasis"

\* mutant: the atomic-unit check left out
AtomicRejectNever(size, openSize, closeSize) == FALSE

\* size == 1 && (openSize == 2 || closeSize == 2)
AtomicReject(size, openSize, closeSize) ==
  size = 1 /\ (openSize = 2 \/ closeSize = 2)

\* mutant: the rule of 3 without its exemption for two multiples of 3
RuleOfThreeStrict(open, close, openSize, closeSize) ==
  /\ (HasClose(open.side) \/ HasOpen(close.side))
  /\ (openSize + closeSize) % 3 = 0

\* the rule of 3 on a candidate pair
RuleOfThreeReject(open, close, openSize, closeSize) ==
  /\ (HasClose(open.side) \/ HasOpen(close.side))
  /\ (openSize + closeSize) % 3 = 0
  /\ (openSize % 3 # 0 \/ closeSize % 3 # 0)

\* mutant: the backward scan does not compare the kinds of the two runs
OpenerSkippedAnyKind(open, close) ==
  IF open = Null THEN TRUE ELSE ~HasOpen(open.side)

\* mutant: the backward scan does not look at the open flag
OpenerSkippedAnySide(open, close) ==
  IF open = Null THEN TRUE ELSE open.type # close.type

\* !open || !(open.side & Mark.Open) || open.type != close.type
OpenerSkipped(open, close) ==
  IF open = Null THEN TRUE
  ELSE IF ~HasOpen(open.side) THEN TRUE
  ELSE open.type # close.type

\* the backward scan for (let j = i - 1; j >= 0; j--): the index found, or -1
RECURSIVE FindOpener(_, _, _, _)
FindOpener(ps, close, closeSize, j) ==
  IF j < 0 THEN -1
  ELSE LET open == ps[j + 1] IN
    IF OpenerSkipped(open, close) THEN FindOpener(ps, close, closeSize, j - 1)
    ELSE LET openSize == open.to - open.from
             size == MatchSize(openSize, closeSize)
         IN IF openSize = 0 THEN FindOpener(ps, close, closeSize, j - 1)
            ELSE IF AtomicReject(size, openSize, closeSize)
              THEN FindOpener(ps, close, closeSize, j - 1)
            ELSE IF RuleOfThreeReject(open, close, openSize, closeSize)
              THEN FindOpener(ps, close, closeSize, j - 1)
            ELSE j

\* mutant: the copies of an earlier invocation are used again
CopyRunsCached(ds) ==
  IF Len(parts) = Len(ds) THEN parts
  ELSE [k \in 1..Len(ds) |->
          InlineDelimiter(ds[k].type, ds[k].from, ds[k].to, ds[k].side)]

\* delims.map(d => new InlineDelimiter(d.type, d.from, d.to, d.side))
CopyRuns(ds) ==
  [k \in 1..Len(ds) |->
     InlineDelimiter(ds[k].type, ds[k].from, ds[k].to, ds[k].side)]

\* the closer loop skips this slot: null, not a closer, or empty
CloserSkipped(close) ==
  IF close = Null THEN TRUE
  ELSE IF ~HasClose(close.side) THEN TRUE
  ELSE close.to - close.from = 0

\* mutant: the opener gives up its leftmost characters, not the matched ones
ShrinkOpenFromLeft(open, size) ==
  LET remainingOpen == (open.to - open.from) - size
  IN IF remainingOpen > 0
       THEN [open EXCEPT !.from = open.from + size]
       ELSE Null

\* the opener after a match of size size: shrunk from the right, or null
ShrinkOpen(open, size) ==
  LET start == open.to - size
      remainingOpen == (open.to - open.from) - size
  IN IF remainingOpen > 0
       THEN (IF start <= open.from THEN Null ELSE [open EXCEPT !.to = start])
       ELSE Null

\* the closer after a match of size size: shrunk from the left, or null
ShrinkClose(close, size) ==
  LET end == close.from + size
      remainingClose == (close.to - close.from) - size
  IN IF remainingClose > 0
       THEN (IF close.to <= end THEN Null ELSE [close EXCEPT !.from = end])
       ELSE Null

\* mutant: every chunk a single character
PeelSizeOne(rem) == 1

\* mutant: a last single character peels nothing
PeelSizeZeroTail(rem) == IF rem >= 2 THEN 2 ELSE 0

\* the chunk the second loop peels from a run with remaining characters left
PeelSize(rem) == IF rem >= 2 THEN 2 ELSE 1

\* mutant: the second loop peels nothing
PeelSkippedAll(p) == TRUE

\* mutant: the second loop peels closers too
PeelSkippedNullOnly(p) == p = Null

\* the second loop skips this slot: null or not an opener
PeelSkipped(p) == IF p = Null THEN TRUE ELSE ~HasOpen(p.side)

(***************************************************************************)
(* Builder: buildTree                                                      *)
(***************************************************************************)
\* cx.elt(type, from, to, children)
elt(type, from, to, children) ==
  [type |-> type, from |-> from, to |-> to, children |-> children]

\* the comparator of segments.sort: a.from - b.from || b.to - a.to
SegmentCompare(a, b) ==
  IF a.from - b.from # 0 THEN a.from - b.from ELSE b.to - a.to

\* stable insertion of x into the sorted sequence s
RECURSIVE InsertSegment(_, _)
InsertSegment(s, x) ==
  IF s = <<>> THEN <<x>>
  ELSE IF SegmentCompare(s[Len(s)], x) <= 0 THEN Append(s, x)
  ELSE Append(InsertSegment(SubSeq(s, 1, Len(s) - 1), x), s[Len(s)])

\* segments.sort(...): Array.prototype.sort is stable
RECURSIVE SortSegments(_)
SortSegments(s) ==
  IF s = <<>> THEN <<>>
  ELSE InsertSegment(SortSegments(SubSeq(s, 1, Len(s) - 1)), s[Len(s)])

\* mutant: a clipped inner part keeps both mark sizes of other
InnerPartKeepsMarks(s, other) ==
  LET contentStart == s.from + s.markSizeOpen
      contentEnd == s.to - s.markSizeClose
      start == Max(other.from, contentStart)
      end == Min(other.to, contentEnd)
  IN IF other.from < contentEnd /\ other.to > contentStart /\ start < end
       THEN <<[other EXCEPT !.from = start, !.to = end]>>
       ELSE <<>>

\* mutant: other pushed to inner as it is, not clipped to the content of s
InnerPartUnclipped(s, other) == <<other>>

\* the part of other inside the content of s, as pushed to inner (or <<>>)
InnerPart(s, other) ==
  LET contentStart == s.from + s.markSizeOpen
      contentEnd == s.to - s.markSizeClose
      start == Max(other.from, contentStart)
      end == Min(other.to, contentEnd)
  IN IF other.from < contentEnd /\ other.to > contentStart /\ start < end
       THEN <<[other EXCEPT
                 !.from = start, !.to = end,
                 !.markSizeClose =
                    IF end = other.to THEN other.markSizeClose ELSE 0,
                 !.markSizeOpen =
                    IF start = other.from THEN other.markSizeOpen ELSE 0]>>
       ELSE <<>>

\* mutant: the part after s keeps its opening mark
OuterPartKeepsOpen(s, other) ==
  IF other.to > s.to THEN [other EXCEPT !.from = s.to] ELSE Null

\* what replaces other in the working list: the part after s, or null
OuterPart(s, other) ==
  IF other.to > s.to
    THEN [other EXCEPT !.from = s.to, !.markSizeOpen = 0]
    ELSE Null

\* for (let j = i + 1; ...): the working list and inner after the loop
RECURSIVE InnerLoop(_, _, _, _)
InnerLoop(segs, s, j, inner) ==
  IF j >= Len(segs) THEN [segments |-> segs, inner |-> inner]
  ELSE LET other == segs[j + 1] IN
    IF other = Null THEN [segments |-> segs, inner |-> inner]
    ELSE IF other.from >= s.to THEN [segments |-> segs, inner |-> inner]
    ELSE InnerLoop([segs EXCEPT ![j + 1] = OuterPart(s, other)], s, j + 1,
                   inner \o InnerPart(s, other))

\* mutant: the cursor check left out
CursorSkippedNullOnly(s, pos) == s = Null

\* the cursor check: !s || s.from < pos
CursorSkipped(s, pos) == IF s = Null THEN TRUE ELSE s.from < pos

OpenMark(s) ==
  IF s.type # "EmphasisMark" /\ s.markSizeOpen > 0
    THEN <<elt("EmphasisMark", s.from, s.from + s.markSizeOpen, <<>>)>>
    ELSE <<>>

CloseMark(s) ==
  IF s.type # "EmphasisMark" /\ s.markSizeClose > 0
    THEN <<elt("EmphasisMark", s.to - s.markSizeClose, s.to, <<>>)>>
    ELSE <<>>

RECURSIVE buildTree(_), OuterLoop(_, _, _, _)
\* for (let i = 0; i < segments.length; i++) of buildTree
OuterLoop(segs, k, pos, result) ==
  IF k >= Len(segs) THEN result
  ELSE LET s == segs[k + 1] IN
    IF CursorSkipped(s, pos) THEN OuterLoop(segs, k + 1, pos, result)
    ELSE LET r == InnerLoop(segs, s, k + 1, <<>>)
             children ==
               OpenMark(s)
                 \o (IF Len(r.inner) > 0 THEN buildTree(r.inner) ELSE <<>>)
                 \o CloseMark(s)
         IN OuterLoop(r.segments, k + 1, s.to,
                      Append(result, elt(s.type, s.from, s.to, children)))

buildTree(segs) == OuterLoop(SortSegments(segs), 0, 0, <<>>)

\* elements.sort((a, b) => a.from - b.from) of resolveIncompleteEmphasis
RECURSIVE InsertElement(_, _)
InsertElement(s, x) ==
  IF s = <<>> THEN <<x>>
  ELSE IF s[Len(s)].from - x.from <= 0 THEN Append(s, x)
  ELSE Append(InsertElement(SubSeq(s, 1, Len(s) - 1), x), s[Len(s)])

RECURSIVE SortElements(_)
SortElements(s) ==
  IF s = <<>> THEN <<>>
  ELSE InsertElement(SortElements(SubSeq(s, 1, Len(s) - 1)), s[Len(s)])

(***************************************************************************)
(* The state machine.                                                      *)
(***************************************************************************)
\* cx.end: the end of the block
blockEnd == Len(text)

Init ==
  /\ text \in Texts
  /\ scanPos = 0
  /\ delims = <<>>
  /\ parts = <<>>
  /\ i = 0
  /\ d = 0
  /\ remaining = 0
  /\ segments = <<>>
  /\ elements = <<>>
  /\ pc = "scan"
  /\ run = 1

\* parse at a position that holds no delimiter: returns -1, the scan moves on
ParseOther ==
  /\ pc = "scan"
  /\ scanPos < Len(text)
  /\ char(text, scanPos) \notin {"*", "_"}
  /\ scanPos' = scanPos + 1
  /\ UNCHANGED <<run, text, delims, parts, i, d, remaining, segments, elements,
                 pc>>

\* parse at the start of a delimiter run: appends it and returns its end
ParseDelimiter ==
  /\ pc = "scan"
  /\ scanPos < Len(text)
  /\ char(text, scanPos) \in {"*", "_"}
  /\ delims' = Append(delims, ScanDelimiter(text, scanPos))
  /\ scanPos' = delims'[Len(delims')].to
  /\ UNCHANGED <<run, text, parts, i, d, remaining, segments, elements, pc>>

\* resolveIncompleteEmphasis with no emphasis delimiter: delegates at once
ResolveEmpty ==
  /\ pc = "scan"
  /\ scanPos >= Len(text)
  /\ Len(delims) = 0
  /\ pc' = "done"
  /\ UNCHANGED <<run, text, scanPos, delims, parts, i, d, remaining, segments,
                 elements>>

\* resolveIncompleteEmphasis calls collectSegments, which copies the runs
ResolveStart ==
  /\ pc = "scan"
  /\ scanPos >= Len(text)
  /\ Len(delims) > 0
  /\ parts' = CopyRuns(delims)
  /\ i' = 0
  /\ segments' = <<>>
  /\ pc' = "close"
  /\ UNCHANGED <<run, text, scanPos, delims, d, remaining, elements>>

\* collectSegments and buildTree are invoked again on the same runs and the
\* same blockEnd; the tree of the invocation before stays with the caller
ResolveAgain ==
  /\ pc = "done"
  /\ Len(delims) > 0
  /\ run < MaxRuns
  /\ run' = run + 1
  /\ parts' = CopyRuns(delims)
  /\ i' = 0
  /\ segments' = <<>>
  /\ pc' = "close"
  /\ UNCHANGED <<text, scanPos, delims, d, remaining, elements>>

\* one iteration of the closer loop that ends in a continue
CloserSkip ==
  /\ pc = "close"
  /\ i < Len(parts)
  /\ LET close == parts[i + 1] IN
       IF CloserSkipped(close) THEN TRUE
       ELSE FindOpener(parts, close, close.to - close.from, i - 1) = -1
  /\ i' = i + 1
  /\ UNCHANGED <<run, text, scanPos, delims, parts, d, remaining, segments,
                 elements, pc>>

\* one iteration of the closer loop that matches parts[i] with an opener
CloserMatch ==
  /\ pc = "close"
  /\ i < Len(parts)
  /\ ~CloserSkipped(parts[i + 1])
  /\ LET close == parts[i + 1]
         closeSize == close.to - close.from
         openIdx == FindOpener(parts, close, closeSize, i - 1)
     IN /\ openIdx # -1
        /\ LET open == parts[openIdx + 1]
               openSize == open.to - open.from
               size == MatchSize(openSize, closeSize)
               start == open.to - size
               end == close.from + size
               newClose == ShrinkClose(close, size)
           IN /\ segments' =
                   Append(segments, Segment(SizeType(size), start, end, size, size))
              /\ parts' = [parts EXCEPT ![openIdx + 1] = ShrinkOpen(open, size),
                                        ![i + 1] = newClose]
              /\ i' = IF newClose # Null THEN i ELSE i + 1
  /\ UNCHANGED <<run, text, scanPos, delims, d, remaining, elements, pc>>

\* the closer loop ends; the second loop starts
CloserDone ==
  /\ pc = "close"
  /\ i >= Len(parts)
  /\ d' = 0
  /\ remaining' = 0
  /\ pc' = "peel"
  /\ UNCHANGED <<run, text, scanPos, delims, parts, i, segments, elements>>

\* for (let d of parts): a slot that is skipped
PeelSkip ==
  /\ pc = "peel"
  /\ remaining = 0
  /\ d < Len(parts)
  /\ PeelSkipped(parts[d + 1])
  /\ d' = d + 1
  /\ UNCHANGED <<run, text, scanPos, delims, parts, i, remaining, segments,
                 elements, pc>>

\* for (let d of parts): let remaining = d.to - d.from
PeelEnter ==
  /\ pc = "peel"
  /\ remaining = 0
  /\ d < Len(parts)
  /\ ~PeelSkipped(parts[d + 1])
  /\ remaining' = parts[d + 1].to - parts[d + 1].from
  /\ d' = IF remaining' > 0 THEN d ELSE d + 1
  /\ UNCHANGED <<run, text, scanPos, delims, parts, i, segments, elements, pc>>

\* one iteration of while (remaining > 0)
PeelChunk ==
  /\ pc = "peel"
  /\ remaining > 0
  /\ LET size == PeelSize(remaining) IN
       /\ segments' =
            Append(segments,
                   Segment(SizeType(size), parts[d + 1].to - remaining,
                           blockEnd, size, 0))
       /\ remaining' = remaining - size
       /\ d' = IF remaining' > 0 THEN d ELSE d + 1
  /\ UNCHANGED <<run, text, scanPos, delims, parts, i, elements, pc>>

\* collectSegments returns
PeelDone ==
  /\ pc = "peel"
  /\ remaining = 0
  /\ d >= Len(parts)
  /\ pc' = "build"
  /\ UNCHANGED <<run, text, scanPos, delims, parts, i, d, remaining, segments,
                 elements>>

\* buildTree(segments, this), then elements.sort by from
Build ==
  /\ pc = "build"
  /\ elements' = SortElements(buildTree(segments))
  /\ pc' = "done"
  /\ UNCHANGED <<run, text, scanPos, delims, parts, i, d, remaining, segments>>

Next ==
  \/ ParseOther
  \/ ParseDelimiter
  \/ ResolveEmpty
  \/ ResolveStart
  \/ ResolveAgain
  \/ CloserSkip
  \/ CloserMatch
  \/ CloserDone
  \/ PeelSkip
  \/ PeelEnter
  \/ PeelChunk
  \/ PeelDone
  \/ Build

Spec == Init /\ [][Next]_vars

(***************************************************************************)
(* Helpers of the properties.                                              *)
(***************************************************************************)
Finished == pc = "done" /\ Len(delims) > 0

RunSize(p) == IF p = Null THEN 0 ELSE p.to - p.from

\* every node of a forest, at any depth
RECURSIVE NodesOf(_)
NodesOf(forest) ==
  {forest[k] : k \in DOMAIN forest}
    \cup UNION {NodesOf(forest[k].children) : k \in DOMAIN forest}

\* every sibling list of a forest: the forest and the children of every node
RECURSIVE LevelsOf(_)
LevelsOf(forest) ==
  {forest} \cup UNION {LevelsOf(forest[k].children) : k \in DOMAIN forest}

Mark(from, to) == elt("EmphasisMark", from, to, <<>>)

\* the EmphasisMark children of a node
MarksOf(n) ==
  {n.children[k] : k \in {j \in DOMAIN n.children :
                            n.children[j].type = "EmphasisMark"}}

\* the marks of a segment with these mark sizes
OpeningMarks(from, size) == IF size = 0 THEN {} ELSE {Mark(from, from + size)}
ClosingMarks(to, size) == IF size = 0 THEN {} ELSE {Mark(to - size, to)}

\* the segments the second loop of collectSegments appended
PeeledSegments == SelectSeq(segments, LAMBDA s : s.markSizeClose = 0)

(***************************************************************************)
(* C1  Incompleteness.                                                     *)
(***************************************************************************)
\* the chunks of min(2, remaining) characters of [from, to), left to right
RECURSIVE ChunksOf(_, _)
ChunksOf(from, to) ==
  IF from >= to THEN <<>>
  ELSE LET n == Min(2, to - from) IN
    <<Segment(IF n = 2 THEN "StrongEmphasis" ELSE "Emphasis",
              from, blockEnd, n, 0)>>
      \o ChunksOf(from + n, to)

RECURSIVE ChunksOfRuns(_, _)
ChunksOfRuns(ps, k) ==
  IF k > Len(ps) THEN <<>>
  ELSE (IF ps[k] # Null /\ HasOpen(ps[k].side)
          THEN ChunksOf(ps[k].from, ps[k].to) ELSE <<>>)
         \o ChunksOfRuns(ps, k + 1)

\* C1: once the second loop has ended, the segments without a closing mark
\* are exactly the chunks of min(2, remaining) characters of every run that
\* is still an opener, left to right, each [chunk start, blockEnd) with marks
\* (chunk size, 0); `*never closes` gives one Emphasis 1/0 and `**hello` one
\* StrongEmphasis 2/0, both ending at blockEnd.
C1_Incompleteness ==
  /\ (pc \in {"build", "done"} /\ Len(delims) > 0)
       => PeeledSegments = ChunksOfRuns(parts, 1)
  /\ (Finished /\ text = TxtNeverCloses)
       => segments = <<Segment("Emphasis", 0, 13, 1, 0)>>
  /\ (Finished /\ text = TxtHelloStrong)
       => segments = <<Segment("StrongEmphasis", 0, 7, 2, 0)>>

\* a run of three characters was peeled into a chunk of 2 and a chunk of 1
C1_Witness ==
  /\ Finished
  /\ \E k \in DOMAIN parts :
       parts[k] # Null /\ HasOpen(parts[k].side) /\ RunSize(parts[k]) = 3
  /\ Len(PeeledSegments) >= 2

(***************************************************************************)
(* C2  Overlap split.                                                      *)
(***************************************************************************)
Crossing(A, B) == A.from < B.from /\ B.from < A.to /\ A.to < B.to

\* Node(A) holds the truncated B and is followed by the continuation of B
SplitAt(A, B) ==
  \E lvl \in LevelsOf(elements) : \E k \in DOMAIN lvl :
    /\ lvl[k].type = A.type /\ lvl[k].from = A.from /\ lvl[k].to = A.to
    /\ \E c \in DOMAIN lvl[k].children :
         LET n == lvl[k].children[c] IN
           /\ n.type = B.type
           /\ n.from = B.from
           /\ n.to <= A.to
           /\ MarksOf(n) = OpeningMarks(B.from, B.markSizeOpen)
    /\ k + 1 <= Len(lvl)
    /\ lvl[k + 1].type = B.type
    /\ lvl[k + 1].from = A.to
    /\ lvl[k + 1].to = B.to
    /\ MarksOf(lvl[k + 1]) = ClosingMarks(B.to, B.markSizeClose)

Encloses(C, X) == C.from <= X.from /\ X.to <= C.to

InContentOf(C, X) ==
  C.from + C.markSizeOpen <= X.from /\ X.to <= C.to - C.markSizeClose

\* no third segment crosses A or B, and one that encloses A or B holds it
\* inside its content, clear of its marks
CrossedByNoOther(A, B) ==
  \A k \in DOMAIN segments :
    LET C == segments[k] IN
      (C # A /\ C # B) =>
        /\ ~Crossing(C, A) /\ ~Crossing(A, C)
        /\ ~Crossing(C, B) /\ ~Crossing(B, C)
        /\ Encloses(C, A) => InContentOf(C, A)
        /\ Encloses(C, B) => InContentOf(C, B)

TreeOverlap ==
  <<elt("Emphasis", 0, 20,
        <<Mark(0, 1),
          elt("StrongEmphasis", 13, 19, <<Mark(13, 15)>>),
          Mark(19, 20)>>),
    elt("StrongEmphasis", 20, 26, <<Mark(24, 26)>>)>>

StdRuleOfThree(open, close) ==
  /\ (HasClose(open.side) \/ HasOpen(close.side))
  /\ ((open.to - open.from) + (close.to - close.from)) % 3 = 0
  /\ ((open.to - open.from) % 3 # 0 \/ (close.to - close.from) % 3 # 0)

RECURSIVE StdFindOpener(_, _, _)
StdFindOpener(ps, close, j) ==
  IF j < 0 THEN -1
  ELSE IF ps[j + 1] = Null THEN StdFindOpener(ps, close, j - 1)
  ELSE IF ~HasOpen(ps[j + 1].side) THEN StdFindOpener(ps, close, j - 1)
  ELSE IF ps[j + 1].type # close.type THEN StdFindOpener(ps, close, j - 1)
  ELSE IF StdRuleOfThree(ps[j + 1], close) THEN StdFindOpener(ps, close, j - 1)
  ELSE j

\* st: the runs, the closer index, the spans emitted, whether an opener's
\* characters were left unmatched or dropped, whether a match of size 1 took
\* a character of a run of remaining length 2
RECURSIVE StdLoop(_)
StdLoop(st) ==
  IF st.i >= Len(st.ps) THEN
    [st EXCEPT !.open = st.open \/ \E k \in DOMAIN st.ps :
                           st.ps[k] # Null /\ HasOpen(st.ps[k].side)]
  ELSE LET close == st.ps[st.i + 1] IN
    IF close = Null THEN StdLoop([st EXCEPT !.i = st.i + 1])
    ELSE IF ~HasClose(close.side) THEN StdLoop([st EXCEPT !.i = st.i + 1])
    ELSE LET j == StdFindOpener(st.ps, close, st.i - 1) IN
      IF j = -1 THEN StdLoop([st EXCEPT !.i = st.i + 1])
      ELSE LET open == st.ps[j + 1]
               openSize == open.to - open.from
               closeSize == close.to - close.from
               size == Min(2, Min(openSize, closeSize))
               start == open.to - size
               end == close.from + size
               dropped == \E k \in (j + 2)..st.i :
                             st.ps[k] # Null /\ HasOpen(st.ps[k].side)
               ps2 == [k \in DOMAIN st.ps |->
                         IF k = j + 1
                           THEN (IF open.from # start
                                   THEN [open EXCEPT !.to = start] ELSE Null)
                         ELSE IF k = st.i + 1
                           THEN (IF close.to # end
                                   THEN [close EXCEPT !.from = end] ELSE Null)
                         ELSE IF k > j + 1 /\ k < st.i + 1 THEN Null
                         ELSE st.ps[k]]
           IN StdLoop([ps |-> ps2,
                       i |-> IF close.to # end THEN st.i ELSE st.i + 1,
                       out |-> Append(st.out,
                                 Segment(IF size = 1 THEN "Emphasis"
                                         ELSE "StrongEmphasis",
                                         start, end, size, size)),
                       open |-> st.open \/ dropped,
                       atomic |-> st.atomic
                         \/ (size = 1 /\ (openSize = 2 \/ closeSize = 2))])

StdResolve ==
  StdLoop([ps |-> delims, i |-> 0, out |-> <<>>, open |-> FALSE,
           atomic |-> FALSE])

\* the spans of the standard resolution: every node and every mark
StdSpans ==
  LET out == StdResolve.out IN
    UNION {{<<out[k].type, out[k].from, out[k].to>>,
            <<"EmphasisMark", out[k].from, out[k].from + out[k].markSizeOpen>>,
            <<"EmphasisMark", out[k].to - out[k].markSizeClose, out[k].to>>} :
           k \in DOMAIN out}

\* the spans of the tree that was built
TreeSpans == {<<n.type, n.from, n.to>> : n \in NodesOf(elements)}

\* every opener is closed in the standard resolution
StdFullyClosed == ~StdResolve.open

TreeClosed ==
  <<elt("Emphasis", 2, 5, <<Mark(2, 3), Mark(4, 5)>>)>>

\* C3 as stated: whenever the standard resolver closes every opener, the
\* tree has exactly the standard resolver's node spans and mark boundaries.
C3_Original ==
  (Finished /\ StdFullyClosed) => TreeSpans = StdSpans

\* C3 amended: whenever the standard resolver closes every opener and none of
\* its matches of size 1 takes a character of a run of remaining length 2,
\* the tree has exactly the standard resolver's node spans and mark
\* boundaries; `a *b* c` gives one Emphasis [2,5) with two marks of length 1.
C3_ClosedEquivalence ==
  /\ (Finished /\ StdFullyClosed /\ ~StdResolve.atomic)
       => TreeSpans = StdSpans
  /\ (Finished /\ text = TxtClosed) => elements = TreeClosed

\* a closed input with nested spans, one of them strong
C3_Witness ==
  /\ Finished
  /\ StdFullyClosed
  /\ ~StdResolve.atomic
  /\ Len(StdResolve.out) >= 2
  /\ \E k \in DOMAIN segments : segments[k].markSizeOpen = 2

(***************************************************************************)
(* C4  Atomicity.                                                          *)
(***************************************************************************)
\* the segment a step appended
Emitted == Len(segments') = Len(segments) + 1
NewSegment == segments'[Len(segments')]

TreeBold ==
  <<elt("StrongEmphasis", 0, 8, <<Mark(0, 2), Mark(6, 8)>>)>>

\* a step that consumes characters of a run of remaining length exactly 2
\* takes both as one mark of size 2
C4_Step ==
  /\ (pc = "close" /\ Emitted) =>
       \A k \in DOMAIN parts :
         (parts[k] # Null /\ parts'[k] # parts[k] /\ RunSize(parts[k]) = 2)
           => /\ NewSegment.markSizeOpen = 2
              /\ NewSegment.markSizeClose = 2
              /\ parts'[k] = Null
  /\ (pc = "peel" /\ Emitted /\ remaining = 2) => NewSegment.markSizeOpen = 2

\* C4: no match of size 1 is made with an opener or a closer of remaining
\* length exactly 2, a run of remaining length 2 is only ever consumed as one
\* mark of 2 characters, and `**bold**` gives exactly one StrongEmphasis with
\* marks 2/2.
C4_Atomicity ==
  /\ [][C4_Step]_vars
  /\ []((Finished /\ text = TxtBold)
          => /\ segments = <<Segment("StrongEmphasis", 0, 8, 2, 2)>>
             /\ elements = TreeBold)

\* a lone closer after a run of 2 openers was rejected: `**a*` stays unmatched
C4_Witness ==
  /\ Finished
  /\ Len(delims) = 2
  /\ delims[1].type = delims[2].type
  /\ HasOpen(delims[1].side) /\ RunSize(delims[1]) = 2
  /\ HasClose(delims[2].side) /\ RunSize(delims[2]) = 1
  /\ segments = <<Segment("StrongEmphasis", delims[1].from, blockEnd, 2, 0)>>

(***************************************************************************)
(* C5  Output ordering and non-overlap.                                    *)
(***************************************************************************)
\* C5: the top-level nodes buildTree returns are in the order of the sort
\* (start ascending, end descending), each starts at or after the end of the
\* one before it, and the sort by start that follows changes nothing.
C5_TopLevelOrder ==
  Finished =>
    /\ elements = buildTree(segments)
    /\ \A k \in 1..(Len(elements) - 1) :
         /\ elements[k].to <= elements[k + 1].from
         /\ \/ elements[k].from < elements[k + 1].from
            \/ /\ elements[k].from = elements[k + 1].from
               /\ elements[k].to >= elements[k + 1].to

\* three top-level nodes, two of them continuations of crossing spans
C5_Witness ==
  /\ Finished
  /\ Len(elements) >= 3
  /\ \E k \in DOMAIN elements :
       MarksOf(elements[k]) = ClosingMarks(elements[k].to, 2)

(***************************************************************************)
(* C6  Node invariant.                                                     *)
(***************************************************************************)
\* C6: at every level the children of a node lie inside its span, are sorted
\* by start and do not overlap; an EmphasisMark has no children.
C6_NodeInvariant ==
  Finished =>
    \A n \in NodesOf(elements) :
      /\ n.from < n.to
      /\ (n.type = "EmphasisMark") => (n.children = <<>>)
      /\ \A k \in DOMAIN n.children :
           /\ n.from <= n.children[k].from
           /\ n.children[k].to <= n.to
      /\ \A k \in 1..(Len(n.children) - 1) :
           n.children[k].to <= n.children[k + 1].from

\* a node with both marks around a truncated child
C6_Witness ==
  /\ Finished
  /\ \E n \in NodesOf(elements) :
       /\ Len(n.children) >= 3
       /\ \E k \in DOMAIN n.children :
            /\ n.children[k].type # "EmphasisMark"
            /\ Len(n.children[k].children) = 1

(***************************************************************************)
(* C7  Coverage.                                                           *)
(***************************************************************************)
Covered(p) ==
  \E k \in DOMAIN elements : elements[k].from <= p /\ p < elements[k].to

TopLevelDisjoint ==
  \A j \in DOMAIN elements, k \in DOMAIN elements :
    (j < k) => (elements[j].to <= elements[k].from
                  \/ elements[k].to <= elements[j].from)

TreeTriple ==
  <<elt("Emphasis", 1, 8,
        <<Mark(1, 2),
          elt("StrongEmphasis", 2, 7, <<Mark(2, 4), Mark(5, 7)>>),
          Mark(7, 8)>>)>>

\* C8: on `a***b***c` both runs of 3 can open and close; the rule of 3 lets
\* them match, which emits StrongEmphasis [2,7) around "b" and leaves one
\* character on the outer side of each run ([1,2) and [7,8)); the tree is
\* that StrongEmphasis nested in the Emphasis [1,8) the two characters form.
C8_AmbiguityTriple ==
  (text = TxtTriple) =>
    /\ (pc = "close") =>
         /\ delims = <<InlineDelimiter(EmphasisAsterisk, 1, 4, 3),
                       InlineDelimiter(EmphasisAsterisk, 5, 8, 3)>>
         /\ (Len(segments) >= 1) =>
              segments[1] = Segment("StrongEmphasis", 2, 7, 2, 2)
         /\ (Len(segments) = 1) =>
              parts = <<InlineDelimiter(EmphasisAsterisk, 1, 2, 3),
                        InlineDelimiter(EmphasisAsterisk, 7, 8, 3)>>
    /\ Finished =>
         /\ segments = <<Segment("StrongEmphasis", 2, 7, 2, 2),
                         Segment("Emphasis", 1, 8, 1, 1)>>
         /\ elements = TreeTriple

\* the two runs of 3 have just matched as strong, one character left on each
C8_Witness ==
  /\ text = TxtTriple
  /\ pc = "close"
  /\ Len(segments) = 1
  /\ RunSize(parts[1]) = 1
  /\ RunSize(parts[2]) = 1

(***************************************************************************)
(* C9  Degradation without failure.                                        *)
(***************************************************************************)
\* the opening mark of s is taken from a run that can open
OpeningFromOpener(s) ==
  /\ s.markSizeOpen \in {1, 2}
  /\ \E k \in DOMAIN delims :
       /\ HasOpen(delims[k].side)
       /\ delims[k].from <= s.from
       /\ s.from + s.markSizeOpen <= delims[k].to

\* the closing mark of s, if any, is taken from a run that can close
ClosingFromCloser(s) ==
  \/ s.markSizeClose = 0
  \/ \E k \in DOMAIN delims :
       /\ HasClose(delims[k].side)
       /\ delims[k].from <= s.to - s.markSizeClose
       /\ s.to <= delims[k].to

\* no mark of any segment lies in run r
Contributes(r) ==
  \E k \in DOMAIN segments :
    LET s == segments[k] IN
      \/ (s.from < r.to /\ r.from < s.from + s.markSizeOpen)
      \/ (s.to - s.markSizeClose < r.to /\ r.from < s.to)

\* run k was never the closer of a match
NeverMatchedAsCloser(k) ==
  \A j \in DOMAIN segments :
    ~(/\ segments[j].markSizeClose > 0
      /\ delims[k].from <= segments[j].to - segments[j].markSizeClose
      /\ segments[j].to <= delims[k].to)

\* the copies stay inside their runs, so no step meets a malformed run
PartsWellFormed ==
  /\ i \in 0..Len(parts)
  /\ d \in 0..Len(parts)
  /\ \A k \in DOMAIN parts :
       (parts[k] # Null) =>
         /\ parts[k].type = delims[k].type
         /\ parts[k].side = delims[k].side
         /\ delims[k].from <= parts[k].from
         /\ parts[k].from < parts[k].to
         /\ parts[k].to <= delims[k].to

\* C9: every state of collectSegments is well formed, every segment takes its
\* opening mark from a run that can open and its closing mark, if it has one,
\* from a run that can close, a run that can neither open nor close is in no
\* segment, and a closer-only run that matched no opener is in no segment.
C9_Degradation ==
  /\ (pc # "scan") => PartsWellFormed
  /\ \A k \in DOMAIN segments :
       OpeningFromOpener(segments[k]) /\ ClosingFromCloser(segments[k])
  /\ \A k \in DOMAIN delims :
       /\ (~HasOpen(delims[k].side) /\ ~HasClose(delims[k].side))
            => ~Contributes(delims[k])
       /\ (~HasOpen(delims[k].side) /\ NeverMatchedAsCloser(k))
            => ~Contributes(delims[k])

\* a closer-only run found no opener, a run can do neither, a segment exists
C9_Witness ==
  /\ Finished
  /\ Len(segments) >= 1
  /\ \E k \in DOMAIN delims :
       /\ delims[k].side = MarkClose
       /\ parts[k] # Null
       /\ ~Contributes(delims[k])
  /\ \E k \in DOMAIN delims : delims[k].side = 0

(***************************************************************************)
(* C10  Termination.                                                       *)
(***************************************************************************)
RECURSIVE SumSizes(_, _)
SumSizes(ps, k) ==
  IF k > Len(ps) THEN 0 ELSE RunSize(ps[k]) + SumSizes(ps, k + 1)

RECURSIVE SumOpenSizes(_, _)
SumOpenSizes(ps, k) ==
  IF k > Len(ps) THEN 0
  ELSE (IF ps[k] # Null /\ HasOpen(ps[k].side) THEN RunSize(ps[k]) ELSE 0)
         + SumOpenSizes(ps, k + 1)

TotalChars == SumSizes(delims, 1)

\* the delimiter characters still to be consumed: in the closer loop those of
\* all runs, in the second loop those left of the current run and of the
\* openers after it
RemainingTotal ==
  IF pc = "close" THEN SumSizes(parts, 1)
  ELSE IF pc = "peel"
    THEN remaining + SumOpenSizes(parts, IF remaining > 0 THEN d + 2 ELSE d + 1)
  ELSE 0

\* the phases of the resolver, in the order they are left
PhaseRank ==
  5 * (MaxRuns - run)
    + (CASE pc = "scan" -> 4
         [] pc = "close" -> 3
         [] pc = "peel" -> 2
         [] pc = "build" -> 1
         [] OTHER -> 0)

\* what is left to do within the phase
PhaseVariant ==
  CASE pc = "scan" -> Len(text) - scanPos
    [] pc = "close" ->
         SumSizes(parts, 1) * (Len(parts) + 1) + (Len(parts) - i)
    [] pc = "peel" ->
         2 * (RemainingTotal + Len(parts) - d)
           + (IF remaining = 0 THEN 1 ELSE 0)
    [] OTHER -> 0

C10_Step ==
  /\ \/ PhaseRank' < PhaseRank
     \/ (PhaseRank' = PhaseRank /\ PhaseVariant' < PhaseVariant)
  /\ PhaseVariant' >= 0
  /\ Emitted => RemainingTotal' < RemainingTotal
  /\ (pc = "close" /\ pc' = "close" /\ i' <= i) => (i' = i /\ Emitted)
  /\ (pc = "close" /\ pc' = "close" /\ ~Emitted) => i' = i + 1

\* C10: collectSegments terminates: every step leaves its phase or decreases
\* a non-negative measure of the phase, and a step exists until the loops
\* have ended; the closer loop stays on a closer only after a match; every
\* match and every peeled chunk strictly decreases the remaining delimiter
\* length; there are never more segments than delimiter characters.
C10_Termination ==
  /\ [][C10_Step]_vars
  /\ []((pc \in {"scan", "close", "peel"}) => ENABLED Next)
  /\ [](Len(segments) <= TotalChars)

\* a closer was re-examined after a match and a run was peeled in two chunks
C10_Witness ==
  /\ Finished
  /\ Len(segments) >= 3
  /\ \E j \in DOMAIN segments, k \in DOMAIN segments :
       /\ j < k
       /\ segments[j].markSizeClose > 0 /\ segments[k].markSizeClose > 0
       /\ segments[j].to = segments[k].to - segments[k].markSizeClose
  /\ Len(PeeledSegments) >= 1

(***************************************************************************)
(* C11  Idempotence and purity.                                            *)
(***************************************************************************)
\* the runs handed to collectSegments are left as they were, and the Build
\* step of a later invocation returns the tree the invocation before returned
C11_Step ==
  /\ (pc # "scan") => delims' = delims
  /\ (pc = "build" /\ run > 1) => elements' = elements

ChosenOpener == CHOOSE k \in 1..i : parts'[k] # parts[k]

\* an earlier run of the closer's kind that can open, as long as the closer
SameSizeOpener(k, close) ==
  /\ parts[k] # Null
  /\ HasOpen(parts[k].side)
  /\ parts[k].type = close.type
  /\ RunSize(parts[k]) = RunSize(close)

C12_Step ==
  (pc = "close" /\ Emitted) =>
    LET close == parts[i + 1] IN
      (\E k \in 1..i : SameSizeOpener(k, close))
        => RunSize(parts[ChosenOpener]) = RunSize(close)

\* C12: whenever a closer is matched while an opener of its kind and of its
\* own length lies before it, the opener it is matched with has that length,
\* even if a nearer opener of another length passes the checks.
C12_SameSizePreference == [][C12_Step]_vars

(***************************************************************************)
(* C13  An unmatched closer.                                               *)
(***************************************************************************)
\* run k was visited by the closer loop of this invocation and left with no
\* opener found: the loop is past it and it still has characters that close
VisitedUnmatched(k) ==
  /\ pc \in {"close", "peel", "build"}
  /\ (pc = "close") => k <= i
  /\ parts[k] # Null
  /\ HasClose(parts[k].side)

\* the closing mark of segment s lies in run k
ClosingMarkIn(s, k) ==
  /\ s.markSizeClose > 0
  /\ delims[k].from <= s.to - s.markSizeClose
  /\ s.to <= delims[k].to

\* the opening mark of segment s lies in run k
OpeningMarkIn(s, k) ==
  /\ s.markSizeOpen > 0
  /\ delims[k].from <= s.from
  /\ s.from + s.markSizeOpen <= delims[k].to

\* C13 as stated: a run the closer loop visited and found no opener for is
\* never selected as the opener of a later closer.
C13_Original ==
  [][(pc = "close" /\ Emitted) => ~VisitedUnmatched(ChosenOpener)]_vars

C13_Step ==
  \A k \in DOMAIN parts :
    VisitedUnmatched(k) =>
      /\ Emitted => ~ClosingMarkIn(NewSegment, k)
      /\ (parts'[k] # parts[k]) =>
           /\ HasOpen(parts[k].side)
           /\ Emitted
           /\ k = ChosenOpener
           /\ OpeningMarkIn(NewSegment, k)
      /\ (~HasOpen(parts[k].side) /\ Emitted) => ~OpeningMarkIn(NewSegment, k)

\* C13 amended: a run the closer loop visited and found no opener for is
\* never matched as a closer afterwards, and it is selected as the opener of
\* a later closer only if it can itself open; a run that can only close stays
\* as it is and gives no mark to any later segment.
C13_UnmatchedCloser == [][C13_Step]_vars

\* a run that can open and close found no opener and opened a later match,
\* and a run that can only close found no opener before a later match
C13_Witness ==
  /\ Finished
  /\ \E k \in DOMAIN delims :
       /\ HasOpen(delims[k].side) /\ HasClose(delims[k].side)
       /\ NeverMatchedAsCloser(k)
       /\ \E j \in DOMAIN segments :
            OpeningMarkIn(segments[j], k) /\ segments[j].markSizeClose > 0
  /\ \E k \in DOMAIN delims :
       /\ delims[k].side = MarkClose
       /\ parts[k] = delims[k]
       /\ \E j \in DOMAIN segments :
            /\ segments[j].markSizeClose > 0
            /\ segments[j].from > delims[k].to

(***************************************************************************)
(* C14  No fragment is lost in the Builder.                                *)
(***************************************************************************)
\* position p lies in a mark of a segment other than segments[k]
InOtherMark(p, k) ==
  \E j \in DOMAIN segments :
    /\ j # k
    /\ \/ (segments[j].from <= p
            /\ p < segments[j].from + segments[j].markSizeOpen)
       \/ (segments[j].to - segments[j].markSizeClose <= p
            /\ p < segments[j].to)

\* position p lies in a node of the tree that has the style of segments[k]
Represented(p, k) ==
  \E n \in NodesOf(elements) :
    n.type = segments[k].type /\ n.from <= p /\ p < n.to

\* C14: for every segment handed to the Builder, each position of its span
\* that is not in a mark of another segment lies in some node of the tree
\* that has the segment's style: no fragment and no remainder is dropped.
C14_NoFragmentLost ==
  Finished =>
    \A k \in DOMAIN segments :
      \A p \in segments[k].from..(segments[k].to - 1) :
        InOtherMark(p, k) \/ Represented(p, k)

(***************************************************************************)
(* C15  Underscore and asterisk runs never match each other.               *)
(***************************************************************************)
\* the marks of s come from two runs of one kind
SameKindMarks(s) ==
  /\ char(text, s.from) = char(text, s.to - 1)
  /\ \E j \in DOMAIN delims, k \in DOMAIN delims :
       /\ j < k
       /\ OpeningMarkIn(s, j)
       /\ ClosingMarkIn(s, k)
       /\ delims[j].type = delims[k].type

\* an opener of the other kind lies between the two marks of s
OtherKindBetween(s) ==
  \E k \in DOMAIN delims :
    /\ HasOpen(delims[k].side)
    /\ char(text, delims[k].from) # char(text, s.from)
    /\ s.from + s.markSizeOpen <= delims[k].from
    /\ delims[k].to <= s.to - s.markSizeClose

\* C15: every matched segment collectSegments emits takes its opening mark
\* and its closing mark from two runs of the same kind, both asterisks or
\* both underscores, whatever runs lie between them.
C15_KindsNeverMix ==
  \A k \in DOMAIN segments :
    (segments[k].markSizeClose > 0) => SameKindMarks(segments[k])

\* a closer was matched past a nearer opener of the other kind, which was
\* left to the second loop
C15_Witness ==
  /\ Finished
  /\ \E k \in DOMAIN segments :
       /\ segments[k].markSizeClose > 0
       /\ OtherKindBetween(segments[k])
  /\ Len(PeeledSegments) >= 1

(***************************************************************************)
(* C16  Segment invariant.                                                 *)
(***************************************************************************)
\* the segments buildTree creates while it builds segs: every inner part it
\* pushes and every part continuing after that it puts in the working list,
\* at every depth of the recursion
RECURSIVE CreatedIn(_), CreatedLoop(_, _, _)
CreatedLoop(segs, k, pos) ==
  IF k >= Len(segs) THEN {}
  ELSE LET s == segs[k + 1] IN
    IF CursorSkipped(s, pos) THEN CreatedLoop(segs, k + 1, pos)
    ELSE LET r == InnerLoop(segs, s, k + 1, <<>>)
             after == {r.segments[j] :
                         j \in {x \in DOMAIN segs :
                                  /\ r.segments[x] # segs[x]
                                  /\ r.segments[x] # Null}}
         IN {r.inner[j] : j \in DOMAIN r.inner}
              \cup after
              \cup (IF Len(r.inner) > 0 THEN CreatedIn(r.inner) ELSE {})
              \cup CreatedLoop(r.segments, k + 1, s.to)

CreatedIn(segs) == CreatedLoop(SortSegments(segs), 0, 0)

\* end > start and a content region of non-negative length
SegmentOK(s) ==
  /\ s.to > s.from
  /\ s.markSizeOpen >= 0
  /\ s.markSizeClose >= 0
  /\ s.from + s.markSizeOpen <= s.to - s.markSizeClose

\* C16: every segment collectSegments emits, and every inner part and every
\* part continuing after that buildTree creates from them, has end > start
\* and start + markSizeOpen <= end - markSizeClose.
C16_SegmentInvariant ==
  /\ \A k \in DOMAIN segments : SegmentOK(segments[k])
  /\ (pc \in {"build", "done"}) =>
       \A s \in CreatedIn(segments) : SegmentOK(s)

\* buildTree clipped a segment on both sides and cut a part continuing after
C16_Witness ==
  /\ Finished
  /\ \E s \in CreatedIn(segments) :
       s.markSizeOpen = 0 /\ s.markSizeClose = 0
  /\ \E s \in CreatedIn(segments) :
       s.markSizeOpen = 0 /\ s.markSizeClose = 2
  /\ \E s \in CreatedIn(segments) :
       s.markSizeOpen > 0 /\ s.markSizeClose = 0 /\ s.to < blockEnd

(***************************************************************************)
(* C17  Each delimiter character is consumed at most once.                 *)
(***************************************************************************)
\* the mark intervals of the segments emitted so far
MarkIntervals ==
  {[seg |-> k, side |-> "open", from |-> segments[k].from,
    to |-> segments[k].from + segments[k].markSizeOpen] :
     k \in {j \in DOMAIN segments : segments[j].markSizeOpen > 0}}
    \cup
  {[seg |-> k, side |-> "close",
    from |-> segments[k].to - segments[k].markSizeClose,
    to |-> segments[k].to] :
     k \in {j \in DOMAIN segments : segments[j].markSizeClose > 0}}

\* the number of characters the first n segments took from run k
RECURSIVE TakenFrom(_, _)
TakenFrom(k, n) ==
  IF n = 0 THEN 0
  ELSE TakenFrom(k, n - 1)
         + (IF OpeningMarkIn(segments[n], k)
              THEN segments[n].markSizeOpen ELSE 0)
         + (IF ClosingMarkIn(segments[n], k)
              THEN segments[n].markSizeClose ELSE 0)

MarksDisjoint ==
  \A a \in MarkIntervals, b \in MarkIntervals :
    (a # b) => (a.to <= b.from \/ b.to <= a.from)

MarksInsideRuns ==
  \A a \in MarkIntervals :
    \E k \in DOMAIN delims :
      delims[k].from <= a.from /\ a.to <= delims[k].to

\* a match takes the rightmost characters left of the opener and the
\* leftmost characters left of the closer
C17_Step ==
  (pc = "close" /\ Emitted) =>
    /\ NewSegment.from + NewSegment.markSizeOpen = parts[ChosenOpener].to
    /\ NewSegment.to - NewSegment.markSizeClose = parts[i + 1].from
    /\ NewSegment.markSizeOpen = NewSegment.markSizeClose
    /\ RunSize(parts'[ChosenOpener])
         = RunSize(parts[ChosenOpener]) - NewSegment.markSizeOpen
    /\ RunSize(parts'[i + 1])
         = RunSize(parts[i + 1]) - NewSegment.markSizeClose

\* C17: the opening and closing mark intervals of the segments of one
\* collectSegments call are pairwise disjoint and each lies inside one run of
\* the scanner; a match takes its opening mark from the right edge of what is
\* left of the opener and its closing mark from the left edge of what is
\* left of the closer; the marks taken from a run never sum to more than its
\* length, and sum to exactly its length once collectSegments has returned if
\* the run can open.
C17_ConsumedOnce ==
  /\ [][C17_Step]_vars
  /\ [](MarksDisjoint /\ MarksInsideRuns)
  /\ [](\A k \in DOMAIN delims :
          /\ TakenFrom(k, Len(segments)) <= RunSize(delims[k])
          /\ (pc \in {"build", "done"} /\ HasOpen(delims[k].side))
               => TakenFrom(k, Len(segments)) = RunSize(delims[k]))

\* a run of 3 gave a closing mark and then an opening mark, and a run that
\* can only close was left with characters no segment took
C17_Witness ==
  /\ Finished
  /\ \E k \in DOMAIN delims :
       /\ RunSize(delims[k]) = 3
       /\ \E a \in DOMAIN segments, b \in DOMAIN segments :
            /\ ClosingMarkIn(segments[a], k)
            /\ OpeningMarkIn(segments[b], k)
  /\ \E k \in DOMAIN delims :
       /\ ~HasOpen(delims[k].side)
       /\ TakenFrom(k, Len(segments)) > 0
       /\ TakenFrom(k, Len(segments)) < RunSize(delims[k])

====
